---- MODULE Spec2Model ----
(***************************************************************************)
(* The exploration screen of explore-kgp, src/app/(tabs)/explore.tsx.      *)
(*                                                                         *)
(* The file holds two screens.  The first (lines 21-167, "overlay") keeps  *)
(* the explored points in React state and mirrors them to AsyncStorage;    *)
(* the second (lines 327-551, "sqlite") keeps them in a SQLite table and   *)
(* pushes snapshots to a web map.  The variable `variant` says which of    *)
(* the two is running; it never changes.                                   *)
(*                                                                         *)
(* React state is modelled as the value of the last render.  A handler     *)
(* that an event starts reads the state of that render; what it reads      *)
(* after an await is still the value it closed over when it started.       *)
(* Every await is a suspension point: the operation stays in `starts` or   *)
(* `ops` until its completion step, and completions may come in any order. *)
(***************************************************************************)
EXTENDS Integers, Sequences, FiniteSets, Bags, TLC

(* ------------------------------ bounds --------------------------------- *)

\* subscriptions created plus startTracking calls in flight
MaxSubs == 2
\* persistence operations (and the reload timer) in flight together
MaxPending == 2
\* rows the store may hold before further fixes are no longer delivered
MaxRows == 2

(* ---------------------------- coordinates ------------------------------ *)

(* A Coordinate is [lat, lon], counted in units of 0.0001 degree from the   *)
(* fallback position (22.3149, 87.3105) of line 494-495.                   *)
Coord(la, lo) == [lat |-> la, lon |-> lo]

\* the positions the location source reports: 22 m apart on a meridian
FixCoords == {Coord(0, 0), Coord(2, 0)}

\* centimetres per 0.0001 degree of latitude: R * pi / 180 * 0.0001, R = 6371e3
LatCm == 1112
\* centimetres per 0.0001 degree of longitude at latitude 22.3149:
\* LatCm * cos(lat1), the factor cos(lat1) * cos(lat2) of the haversine
LonCm == 1029
\* the revisit threshold of `getDistance(pt, current) < 30`, in metres
RevisitThreshold == 30

RECURSIVE SqrtBetween(_, _, _)
SqrtBetween(n, lo, hi) ==
  IF lo >= hi THEN lo
  ELSE LET mid == (lo + hi + 1) \div 2
       IN  IF mid * mid <= n THEN SqrtBetween(n, mid, hi)
           ELSE SqrtBetween(n, lo, mid - 1)

\* Math.sqrt, rounded down
Sqrt(n) == SqrtBetween(n, 0, 46340)

(* getDistance: the haversine distance R * c, in whole centimetres.  For    *)
(* the offsets of the model (under 0.001 degree) a_ is the squared half    *)
(* chord, c = 2 * atan2(sqrt a_, sqrt(1 - a_)) is the angle, and R * c     *)
(* differs from sqrt((R dLat)^2 + (R cos(lat) dLon)^2) by less than 1 cm.  *)
getDistance(a, b) ==
  LET dLat == LatCm * (b.lat - a.lat)
      dLon == LonCm * (b.lon - a.lon)
  IN  Sqrt(dLat * dLat + dLon * dLon)

\* explored.some((pt) => getDistance(pt, current) < 30)
someWithin(pts, current) ==
  \E k \in 1..Len(pts) : getDistance(pts[k], current) < RevisitThreshold * 100

\* const isNew = !explored.some(...)
isNew(pts, current) == ~someWithin(pts, current)

(* ------------------------------- state --------------------------------- *)

VARIABLES
  variant,     \* "overlay" (lines 21-167) or "sqlite" (lines 327-551)
  location,    \* useState<Coordinate | null>: <<>> is null, <<c>> is c
  explored,    \* useState<Coordinate[]>: the in-memory explored set
  isTracking,  \* useState(false)
  watcher,     \* useState<LocationSubscription | null>: 0 is null, else an index of subs
  subs,        \* every subscription watchPositionAsync has returned:
               \* [live: not yet removed, snap: the `explored` its callback closed over
               \* (<<>> once removed: the callback is never called again)]
  starts,      \* the startTracking calls suspended at an await: a bag of
               \* [pc: "perm" or "watch", snap: the `explored` of the render that called]
  ops,         \* the persistence operations in flight: a bag of [op, pts, i], with
               \* pts the points the operation writes and i how many of them a fix
               \* has just found new (for Simulate Walk: which INSERT is in flight;
               \* for "Sync Web": pts is the array that setExplored([]) replaced)
  store,       \* the persisted points: [present, rows]; rows of explored_points in id
               \* order, or the array under "explored-areas" (present = FALSE: no item)
  isMapReady,  \* useState(false), set 500 ms after the web view loaded
  webMsg,      \* the last message posted to the web view
  last         \* the step taken last and what it told the user

vars == <<variant, location, explored, isTracking, watcher, subs, starts, ops,
          store, isMapReady, webMsg, last>>

NoMsg == [sent |-> FALSE, hasLoc |-> FALSE, loc |-> <<>>, pts |-> <<>>, center |-> FALSE]

Op(o, p, k) == [op |-> o, pts |-> p, i |-> k]
Event(e, a) == [ev |-> e, alert |-> a]

Put(bag, x) == bag (+) SetToBag({x})
Take(bag, x) == bag (-) SetToBag({x})
Room(n) == BagCardinality(ops) + n <= MaxPending

\* what a render holds of the store, as a bag of coordinates
BagOfSeq(s) == [c \in {s[k] : k \in 1..Len(s)} |-> Cardinality({k \in 1..Len(s) : s[k] = c})]

liveSubs == {k \in 1..Len(subs) : subs[k].live}

(* The web view effect of lines 357-367, run after a render in which       *)
(* location, explored, isTracking or isMapReady changed (`changed`): it    *)
(* posts {type: 'update', location, points, shouldCenter} or leaves the    *)
(* last message as it is.                                                  *)
pushUpdate(changed, ready, loc, pts, tracking, msg) ==
  IF variant = "sqlite" /\ changed /\ ready /\ (loc # <<>> \/ Len(pts) > 0)
  THEN [sent |-> TRUE, hasLoc |-> TRUE, loc |-> loc, pts |-> pts, center |-> tracking]
  ELSE msg

(* The mirror effect of lines 36-38, run after a render in which explored  *)
(* changed: AsyncStorage.setItem("explored-areas", JSON.stringify(explored)) *)
mirror(bag, pts, k) ==
  IF variant = "overlay" THEN Put(bag, Op("setItem", pts, k)) ELSE bag

(* ---------------------------- construction ----------------------------- *)

\* what an earlier run of the app may have left in the store: nothing, or a point
\* 22 m from the one reported position and 44 m from the other
InitRows == {<<>>, <<Coord(4, 0)>>}

(* The state after the first render and its mount effects: initDB has      *)
(* been called (lines 335-354), or getItem and the first setItem have been *)
(* issued (lines 29-38).                                                   *)
Init ==
  /\ variant \in {"sqlite", "overlay"}
  /\ location = <<>>
  /\ explored = <<>>
  /\ isTracking = FALSE
  /\ watcher = 0
  /\ subs = <<>>
  /\ starts = EmptyBag
  /\ \E r \in InitRows :
       store = [present |-> (variant = "sqlite" \/ r # <<>>), rows |-> r]
  /\ ops = IF variant = "sqlite"
           THEN SetToBag({Op("initDB", <<>>, 0)})
           ELSE SetToBag({Op("getItem", <<>>, 0), Op("setItem", <<>>, 0)})
  /\ isMapReady = FALSE
  /\ webMsg = NoMsg
  /\ last = Event("mount", "")

(* ------------------------------ tracking ------------------------------- *)

(* toggleTracking with isTracking false: startTracking runs to its first   *)
(* await, Location.requestForegroundPermissionsAsync() (lines 369-370).    *)
PressStart ==
  /\ ~isTracking
  /\ Len(subs) + BagCardinality(starts) < MaxSubs
  /\ starts' = Put(starts, [pc |-> "perm", snap |-> explored])
  /\ last' = Event("startTracking", "")
  /\ UNCHANGED <<variant, location, explored, isTracking, watcher, subs, ops,
                 store, isMapReady, webMsg>>

\* status === "granted": on to the second await, Location.watchPositionAsync
PermissionGranted ==
  \E s \in BagToSet(starts) :
    /\ s.pc = "perm"
    /\ starts' = Put(Take(starts, s), [s EXCEPT !.pc = "watch"])
    /\ last' = Event("granted", "")
    /\ UNCHANGED <<variant, location, explored, isTracking, watcher, subs, ops,
                   store, isMapReady, webMsg>>

\* the denial without its `return`: the call goes on to watchPositionAsync
PermissionDeniedNoReturn ==
  \E s \in BagToSet(starts) :
    /\ s.pc = "perm"
    /\ starts' = Put(Take(starts, s), [s EXCEPT !.pc = "watch"])
    /\ last' = Event("denied", "Permission denied")
    /\ UNCHANGED <<variant, location, explored, isTracking, watcher, subs, ops,
                   store, isMapReady, webMsg>>

\* status !== "granted": Alert.alert("Permission denied", ...) and return
PermissionDenied ==
  \E s \in BagToSet(starts) :
    /\ s.pc = "perm"
    /\ starts' = Take(starts, s)
    /\ last' = Event("denied", "Permission denied")
    /\ UNCHANGED <<variant, location, explored, isTracking, watcher, subs, ops,
                   store, isMapReady, webMsg>>

\* watchPositionAsync resolved: setWatcher(sub); setIsTracking(true)
setWatcherAndTracking(s) ==
  /\ subs' = Append(subs, [live |-> TRUE, snap |-> s.snap])
  /\ watcher' = Len(subs) + 1
  /\ isTracking' = TRUE

WatchCreated ==
  \E s \in BagToSet(starts) :
    /\ s.pc = "watch"
    /\ starts' = Take(starts, s)
    /\ setWatcherAndTracking(s)
    /\ webMsg' = pushUpdate(~isTracking, isMapReady, location, explored, TRUE, webMsg)
    /\ last' = Event("watching", "")
    /\ UNCHANGED <<variant, location, explored, ops, store, isMapReady>>

\* stopTracking without its setIsTracking(false)
stopTrackingKeepsFlag ==
  /\ subs' = IF watcher = 0 THEN subs
            ELSE [subs EXCEPT ![watcher] = [live |-> FALSE, snap |-> <<>>]]
  /\ watcher' = 0
  /\ isTracking' = isTracking

\* watcher?.remove(); setWatcher(null); setIsTracking(false)
stopTracking ==
  /\ subs' = IF watcher = 0 THEN subs
            ELSE [subs EXCEPT ![watcher] = [live |-> FALSE, snap |-> <<>>]]
  /\ watcher' = 0
  /\ isTracking' = FALSE

\* toggleTracking with isTracking true
PressStop ==
  /\ isTracking
  /\ stopTracking
  /\ webMsg' = pushUpdate(TRUE, isMapReady, location, explored, FALSE, webMsg)
  /\ last' = Event("stopTracking", "")
  /\ UNCHANGED <<variant, location, explored, starts, ops, store, isMapReady>>

(* -------------------------------- fixes -------------------------------- *)

\* the model delivers a fix that adds a point only while the stores are short
CanGrow == Len(store.rows) < MaxRows /\ Len(explored) < MaxRows

\* the callback with setLocation(current) moved into `if (isNew)`
onFixSqliteLocationIfNew(snap, c) ==
  /\ location' = IF isNew(snap, c) THEN <<c>> ELSE location
  /\ webMsg' = pushUpdate(TRUE, isMapReady, location', explored, isTracking, webMsg)
  /\ IF isNew(snap, c)
     THEN /\ CanGrow /\ Room(1)
          /\ ops' = Put(ops, Op("insert", <<c>>, 1))
          /\ last' = Event("fixNew", "")
     ELSE /\ ops' = ops
          /\ last' = Event("fixRevisited", "")
  /\ UNCHANGED <<explored, store>>

(* The callback of lines 382-400, up to its await: setLocation(current),   *)
(* then isNew against the `explored` the callback closed over; a new point *)
(* goes to db.runAsync("INSERT ...").                                      *)
onFixSqlite(snap, c) ==
  /\ location' = <<c>>
  /\ webMsg' = pushUpdate(TRUE, isMapReady, location', explored, isTracking, webMsg)
  /\ IF isNew(snap, c)
     THEN /\ CanGrow /\ Room(1)
          /\ ops' = Put(ops, Op("insert", <<c>>, 1))
          /\ last' = Event("fixNew", "")
     ELSE /\ ops' = ops
          /\ last' = Event("fixRevisited", "")
  /\ UNCHANGED <<explored, store>>

(* The callback of lines 53-60: setLocation(current), then isNew against   *)
(* the `explored` the callback closed over; a new point is appended, and   *)
(* the mirror effect writes the new array.                                 *)
onFixOverlay(snap, c) ==
  /\ location' = <<c>>
  /\ IF isNew(snap, c)
     THEN /\ CanGrow /\ Room(1)
          /\ explored' = Append(explored, c)
          /\ ops' = mirror(ops, explored', 1)
          /\ last' = Event("fixNew", "")
     ELSE /\ explored' = explored
          /\ ops' = ops
          /\ last' = Event("fixRevisited", "")
  /\ UNCHANGED <<store, webMsg>>

\* a live subscription calls its callback with a position
Fix ==
  \E k \in liveSubs, c \in FixCoords :
    /\ IF variant = "sqlite" THEN onFixSqlite(subs[k].snap, c)
                             ELSE onFixOverlay(subs[k].snap, c)
    /\ UNCHANGED <<variant, isTracking, watcher, subs, starts, isMapReady>>

\* the INSERT resolved: setExplored((prev) => [...prev, current])  (line 397)
insertResolved(c) ==
  /\ store' = [store EXCEPT !.rows = Append(@, c)]
  /\ explored' = Append(explored, c)

InsertOk ==
  \E o \in BagToSet(ops) :
    /\ o.op = "insert"
    /\ ops' = Take(ops, o)
    /\ insertResolved(o.pts[1])
    /\ webMsg' = pushUpdate(TRUE, isMapReady, location, explored', isTracking, webMsg)
    /\ last' = Event("insertOk", "")
    /\ UNCHANGED <<variant, location, isTracking, watcher, subs, starts, isMapReady>>

\* the INSERT threw: catch (e) { console.log("Insert Error", e) }  (line 398)
insertRejected == UNCHANGED <<store, explored>>

InsertFail ==
  \E o \in BagToSet(ops) :
    /\ o.op = "insert"
    /\ ops' = Take(ops, o)
    /\ insertRejected
    /\ last' = Event("insertFailed", "")
    /\ UNCHANGED <<variant, location, isTracking, watcher, subs, starts,
                   isMapReady, webMsg>>

(* -------------------------------- reset -------------------------------- *)

\* the message reset posts itself: {type: 'update', points: []}  (line 426)
ResetMsg == [sent |-> TRUE, hasLoc |-> FALSE, loc |-> <<>>, pts |-> <<>>, center |-> FALSE]

\* a reset that does nothing when memory is already empty
resetSqliteSkipEmpty ==
  /\ Room(1)
  /\ ops' = IF explored = <<>> THEN ops ELSE Put(ops, Op("delete", <<>>, 0))
  /\ UNCHANGED <<explored, store, webMsg>>

(* "Clear" in the dialog of lines 416-431: the handler runs to its await,  *)
(* db.runAsync("DELETE FROM explored_points").                             *)
resetSqlite ==
  /\ Room(1)
  /\ ops' = Put(ops, Op("delete", <<>>, 0))
  /\ UNCHANGED <<explored, store, webMsg>>

(* reset of lines 75-78: setExplored([]), AsyncStorage.removeItem(...),    *)
(* and after the render the mirror effect writes the empty array.          *)
resetOverlay ==
  /\ Room(2)
  /\ explored' = <<>>
  /\ ops' = mirror(Put(ops, Op("removeItem", <<>>, 0)), explored', 0)
  /\ UNCHANGED <<store, webMsg>>

PressReset ==
  /\ IF variant = "sqlite" THEN resetSqlite ELSE resetOverlay
  /\ last' = Event("reset", "")
  /\ UNCHANGED <<variant, location, isTracking, watcher, subs, starts, isMapReady>>

\* the DELETE resolved: setExplored([]) and the message to the web view
deleteResolved ==
  /\ store' = [store EXCEPT !.rows = <<>>]
  /\ explored' = <<>>
  /\ webMsg' = pushUpdate(TRUE, isMapReady, location, explored', isTracking, ResetMsg)

DeleteOk ==
  \E o \in BagToSet(ops) :
    /\ o.op = "delete"
    /\ ops' = Take(ops, o)
    /\ deleteResolved
    /\ last' = Event("resetOk", "")
    /\ UNCHANGED <<variant, location, isTracking, watcher, subs, starts, isMapReady>>

\* the DELETE threw: catch (e) { console.log("Reset Error", e) }  (line 428)
deleteRejected == UNCHANGED <<store, explored, webMsg>>

DeleteFail ==
  \E o \in BagToSet(ops) :
    /\ o.op = "delete"
    /\ ops' = Take(ops, o)
    /\ deleteRejected
    /\ last' = Event("resetFailed", "")
    /\ UNCHANGED <<variant, location, isTracking, watcher, subs, starts, isMapReady>>

(* ----------------------- startup load and reload ----------------------- *)

\* CREATE TABLE IF NOT EXISTS and SELECT resolved: setExplored(result)  (line 348)
InitOk ==
  \E o \in BagToSet(ops) :
    /\ o.op = "initDB"
    /\ ops' = Take(ops, o)
    /\ explored' = store.rows
    /\ webMsg' = pushUpdate(TRUE, isMapReady, location, explored', isTracking, webMsg)
    /\ last' = Event("initOk", "")
    /\ UNCHANGED <<variant, location, isTracking, watcher, subs, starts, store,
                   isMapReady>>

\* the statement threw and initDB never settles: the load stays in progress
InitFailKeepsLoading ==
  /\ \E o \in BagToSet(ops) : o.op = "initDB"
  /\ last' = Event("initFailed", "")
  /\ UNCHANGED <<variant, location, explored, isTracking, watcher, subs, starts,
                 ops, store, isMapReady, webMsg>>

\* either statement threw: catch (e) { console.log("DB Init Error:", e) }  (line 350)
InitFail ==
  \E o \in BagToSet(ops) :
    /\ o.op = "initDB"
    /\ ops' = Take(ops, o)
    /\ last' = Event("initFailed", "")
    /\ UNCHANGED <<variant, location, explored, isTracking, watcher, subs, starts,
                   store, isMapReady, webMsg>>

(* "Sync Web" (lines 530-540): setExplored([]) at once, the SELECT after   *)
(* a timer of 500 ms.                                                      *)
PressReload ==
  /\ variant = "sqlite"
  /\ Room(1)
  /\ explored' = <<>>
  /\ ops' = Put(ops, Op("reload", explored, 0))
  /\ webMsg' = pushUpdate(TRUE, isMapReady, location, explored', isTracking, webMsg)
  /\ last' = Event("reload", "")
  /\ UNCHANGED <<variant, location, isTracking, watcher, subs, starts, store,
                 isMapReady>>

\* the SELECT resolved but its result is dropped: no setExplored(result)
ReloadOkNoSet ==
  \E o \in BagToSet(ops) :
    /\ o.op = "reload"
    /\ ops' = Take(ops, o)
    /\ last' = Event("reloadOk", "Reloaded")
    /\ UNCHANGED <<variant, location, explored, isTracking, watcher, subs, starts,
                   store, isMapReady, webMsg>>

\* the timer fired and the SELECT resolved: setExplored(result), Alert "Reloaded"
ReloadOk ==
  \E o \in BagToSet(ops) :
    /\ o.op = "reload"
    /\ ops' = Take(ops, o)
    /\ explored' = store.rows
    /\ webMsg' = pushUpdate(TRUE, isMapReady, location, explored', isTracking, webMsg)
    /\ last' = Event("reloadOk", "Reloaded")
    /\ UNCHANGED <<variant, location, isTracking, watcher, subs, starts, store,
                   isMapReady>>

\* the SELECT threw: catch (e) { console.log("Reload Error", e) }  (line 538)
ReloadFail ==
  \E o \in BagToSet(ops) :
    /\ o.op = "reload"
    /\ ops' = Take(ops, o)
    /\ last' = Event("reloadFailed", "")
    /\ UNCHANGED <<variant, location, explored, isTracking, watcher, subs, starts,
                   store, isMapReady, webMsg>>

\* onLoadEnd and its timer of 500 ms: setIsMapReady(true)  (lines 458-464)
BridgeReady ==
  /\ variant = "sqlite"
  /\ ~isMapReady
  /\ isMapReady' = TRUE
  /\ webMsg' = pushUpdate(TRUE, isMapReady', location, explored, isTracking, webMsg)
  /\ last' = Event("bridgeReady", "")
  /\ UNCHANGED <<variant, location, explored, isTracking, watcher, subs, starts,
                 ops, store>>

(* ---------------------------- Simulate Walk ---------------------------- *)

\* for (let i = 0; i < 5; i++)
SimPoints == 5
\* i * 0.0002, in units of 0.0001 degree
SimStep == 2

\* location?.latitude || 22.3149 and location?.longitude || 87.3105
simBase == IF location = <<>> THEN Coord(0, 0) ELSE location[1]

\* the five points in a small line from the base  (lines 496-504)
newPoints(base) ==
  [k \in 1..SimPoints |->
     Coord(base.lat + (k - 1) * SimStep, base.lon + (k - 1) * SimStep)]

(* "+ Simulate Walk" (lines 491-523): the handler computes newPoints and   *)
(* runs to the await of the first INSERT.  The model lets one walk run at  *)
(* a time, and only while the stores are short.                            *)
PressSimulate ==
  /\ variant = "sqlite"
  /\ Room(1) /\ CanGrow
  /\ \A o \in BagToSet(ops) : o.op # "simInsert"
  /\ ops' = Put(ops, Op("simInsert", newPoints(simBase), 1))
  /\ last' = Event("simulate", "")
  /\ UNCHANGED <<variant, location, explored, isTracking, watcher, subs, starts,
                 store, isMapReady, webMsg>>

(* An INSERT of the loop resolved: the next one is awaited, or after the   *)
(* last one setExplored(prev => [...prev, ...newPoints]) and the alert.    *)
SimInsertOk ==
  \E o \in BagToSet(ops) :
    /\ o.op = "simInsert"
    /\ store' = [store EXCEPT !.rows = Append(@, o.pts[o.i])]
    /\ IF o.i < SimPoints
       THEN /\ ops' = Put(Take(ops, o), [o EXCEPT !.i = @ + 1])
            /\ last' = Event("simInsertOk", "")
            /\ UNCHANGED <<explored, webMsg>>
       ELSE /\ ops' = Take(ops, o)
            /\ explored' = explored \o o.pts
            /\ webMsg' = pushUpdate(TRUE, isMapReady, location, explored', isTracking,
                                    webMsg)
            /\ last' = Event("simulated", "Simulated")
    /\ UNCHANGED <<variant, location, isTracking, watcher, subs, starts, isMapReady>>

\* an INSERT of the loop threw: catch (e) { console.log("Sim Error", e) }  (line 522)
SimInsertFail ==
  \E o \in BagToSet(ops) :
    /\ o.op = "simInsert"
    /\ ops' = Take(ops, o)
    /\ last' = Event("simFailed", "")
    /\ UNCHANGED <<variant, location, explored, isTracking, watcher, subs, starts,
                   store, isMapReady, webMsg>>

(* --------------------- AsyncStorage of the overlay --------------------- *)

(* getItem resolved (lines 31-32): if (saved) setExplored(JSON.parse(saved)), *)
(* and the mirror effect writes the array back.                            *)
GetItemOk ==
  \E o \in BagToSet(ops) :
    /\ o.op = "getItem"
    /\ IF store.present
       THEN /\ explored' = store.rows
            /\ ops' = mirror(Take(ops, o), explored', 0)
       ELSE /\ explored' = explored
            /\ ops' = Take(ops, o)
    /\ last' = Event("initOk", "")
    /\ UNCHANGED <<variant, location, isTracking, watcher, subs, starts, store,
                   isMapReady, webMsg>>

\* setItem resolved: the item is the array the effect serialised
SetItemOk ==
  \E o \in BagToSet(ops) :
    /\ o.op = "setItem"
    /\ ops' = Take(ops, o)
    /\ store' = [present |-> TRUE, rows |-> o.pts]
    /\ last' = Event(IF o.i > 0 THEN "insertOk" ELSE "mirrorOk", "")
    /\ UNCHANGED <<variant, location, explored, isTracking, watcher, subs, starts,
                   isMapReady, webMsg>>

\* removeItem resolved: the item is gone
RemoveItemOk ==
  \E o \in BagToSet(ops) :
    /\ o.op = "removeItem"
    /\ ops' = Take(ops, o)
    /\ store' = [present |-> FALSE, rows |-> <<>>]
    /\ last' = Event("resetOk", "")
    /\ UNCHANGED <<variant, location, explored, isTracking, watcher, subs, starts,
                   isMapReady, webMsg>>

\* what a rejected AsyncStorage request was for
failedRequest(o) ==
  CASE o.op = "getItem" -> "initFailed"
    [] o.op = "removeItem" -> "resetFailed"
    [] o.op = "setItem" /\ o.i > 0 -> "insertFailed"
    [] OTHER -> "mirrorFailed"

\* getItem, setItem or removeItem rejected; nothing awaits or catches it
StorageFail ==
  \E o \in BagToSet(ops) :
    /\ o.op \in {"getItem", "setItem", "removeItem"}
    /\ ops' = Take(ops, o)
    /\ last' = Event(failedRequest(o), "")
    /\ UNCHANGED <<variant, location, explored, isTracking, watcher, subs, starts,
                   store, isMapReady, webMsg>>

(* ---------------------------- specification ---------------------------- *)

NextTracking ==
  \/ PressStart
  \/ PermissionGranted
  \/ PermissionDenied
  \/ WatchCreated
  \/ PressStop
  \/ Fix
  \/ InsertOk
  \/ InitOk
  \/ GetItemOk
  \/ SetItemOk

Next ==
  \/ PressStart
  \/ PermissionGranted
  \/ PermissionDenied
  \/ WatchCreated
  \/ PressStop
  \/ Fix
  \/ InsertOk
  \/ InsertFail
  \/ PressReset
  \/ DeleteOk
  \/ DeleteFail
  \/ InitOk
  \/ InitFail
  \/ PressReload
  \/ ReloadOk
  \/ ReloadFail
  \/ BridgeReady
  \/ GetItemOk
  \/ SetItemOk
  \/ RemoveItemOk
  \/ StorageFail

\* the screen: every handler and every completion but the development tool
Spec == Init /\ [][Next]_vars

(* The development tool "+ Simulate Walk" of the sqlite screen beside      *)
(* the startup load, reset and "Sync Web", with no position source.        *)
NextDev ==
  \/ PressSimulate
  \/ SimInsertOk
  \/ SimInsertFail
  \/ PressReset
  \/ DeleteOk
  \/ DeleteFail
  \/ InitOk
  \/ InitFail
  \/ PressReload
  \/ ReloadOk
  \/ ReloadFail

InitDev == Init /\ variant = "sqlite"

SpecDev == InitDev /\ [][NextDev]_vars

\* starting, stopping and fixes alone, every persistence request succeeding
SpecTracking == Init /\ [][NextTracking]_vars

\* no operation suspended at an await
Idle == ops = EmptyBag

(* One thing at a time: tracking is started only after the startup load    *)
(* and with no other start under way, a fix is handled only when the write *)
(* of the one before has completed, and every write succeeds.              *)
NextSeq ==
  \/ Idle /\ starts = EmptyBag /\ PressStart
  \/ PermissionGranted
  \/ WatchCreated
  \/ PressStop
  \/ Idle /\ Fix
  \/ InsertOk
  \/ InitOk
  \/ GetItemOk
  \/ SetItemOk

SpecSeq == Init /\ [][NextSeq]_vars

(* The sqlite screen with one thing at a time and every request            *)
(* succeeding, as SpecSeq, and "Sync Web" pressed between the fixes.       *)
NextReload ==
  \/ Idle /\ starts = EmptyBag /\ PressStart
  \/ PermissionGranted
  \/ WatchCreated
  \/ PressStop
  \/ Idle /\ Fix
  \/ InsertOk
  \/ InitOk
  \/ Idle /\ PressReload
  \/ ReloadOk
  \/ BridgeReady

SpecReload == InitDev /\ [][NextReload]_vars

(* The sqlite screen tracking, with starts that overlap, fixes that        *)
(* overlap, and INSERTs that resolve or throw.                             *)
NextFixes ==
  \/ PressStart
  \/ PermissionGranted
  \/ WatchCreated
  \/ PressStop
  \/ Fix
  \/ InsertOk
  \/ InsertFail
  \/ InitOk
  \/ BridgeReady

SpecFixes == InitDev /\ [][NextFixes]_vars

(* The sqlite screen with no position source: the startup load, reset    *)
(* and "Sync Web", each resolving or throwing, and the web view.           *)
NextReset ==
  \/ InitOk
  \/ InitFail
  \/ PressReset
  \/ DeleteOk
  \/ DeleteFail
  \/ PressReload
  \/ ReloadOk
  \/ ReloadFail
  \/ BridgeReady

SpecReset == InitDev /\ [][NextReset]_vars

\* Start pressed once the startup load has settled and no other start is under way
StartWhenSettled == Idle /\ starts = EmptyBag /\ PressStart

(* The sqlite screen whose startup load succeeds or fails, and tracking    *)
(* started after it, with either permission outcome.                       *)
NextStartup ==
  \/ InitOk
  \/ InitFail
  \/ StartWhenSettled
  \/ PermissionGranted
  \/ PermissionDenied
  \/ WatchCreated
  \/ PressStop
  \/ Fix
  \/ InsertOk
  \/ BridgeReady

SpecStartup == InitDev /\ [][NextStartup]_vars

(* ------------------------------- claims -------------------------------- *)

fixEvents == {"fixNew", "fixRevisited"}

farApart(a, b) == getDistance(a, b) >= RevisitThreshold * 100

(* C1: with fixes delivered one at a time, no two entries of the in-memory *)
(* explored set are within the 30 m revisit threshold of each other.       *)
C1_PairwiseApart ==
  \A i, j \in 1..Len(explored) : i < j => farApart(explored[i], explored[j])

(* C2: whenever no operation is in progress, the in-memory explored set    *)
(* and the persisted points are equal as multisets of coordinates.         *)
C2_MemoryEqualsStore ==
  Idle => BagOfSeq(explored) = BagOfSeq(store.rows)

(* C3: a fix is classified against the points in the explored set at the   *)
(* time it is handled: NEW if and only if every one of them is at least    *)
(* 30 m away, and a REVISITED fix changes neither store.                   *)
C3_ClassifiedAgainstCurrent ==
  [][ last'.ev \in fixEvents =>
        /\ (last'.ev = "fixNew") <=> isNew(explored, location'[1])
        /\ last'.ev = "fixRevisited" =>
             explored' = explored /\ store' = store /\ ops' = ops ]_vars

(* C4: the same coordinate fed twice in a row, from an empty explored set  *)
(* and with both writes succeeding, yields one point in memory and one     *)
(* persisted row: a set that holds nothing but one coordinate holds it     *)
(* once.                                                                   *)
C4_SameFixOnce ==
  \A c \in FixCoords :
    /\ (\A k \in 1..Len(explored) : explored[k] = c) => Len(explored) <= 1
    /\ (\A k \in 1..Len(store.rows) : store.rows[k] = c) => Len(store.rows) <= 1

(* C5: when the write of a point a fix found new has failed, memory holds  *)
(* no point without a persisted row: the point was not appended.           *)
C5_NoOrphanAfterFailedInsert ==
  last.ev = "insertFailed" => BagOfSeq(explored) \sqsubseteq BagOfSeq(store.rows)

(* C6: reset is all-or-nothing: the handler changes nothing before the     *)
(* delete-all is confirmed, a failed delete-all leaves memory and store as *)
(* they were, and a confirmed one leaves both empty.                       *)
C6_ResetAllOrNothing ==
  [][ /\ last'.ev \in {"reset", "resetFailed"} =>
           explored' = explored /\ store' = store
      /\ last'.ev = "resetOk" => explored' = <<>> /\ store'.rows = <<>> ]_vars

(* C7: fixes whose handlers overlap are serialized: two fixes within 30 m  *)
(* of each other are never both classified NEW, so no two inserts of such  *)
(* fixes are in flight together.                                           *)
C7_FixesSerialized ==
  \A o1, o2 \in BagToSet(ops) :
    (o1.op = "insert" /\ o2.op = "insert") =>
      /\ CopiesIn(o1, ops) = 1
      /\ o1 # o2 => farApart(o1.pts[1], o2.pts[1])

(* C8: at most one position subscription is active at any time.            *)
C8_OneSubscription == Cardinality(liveSubs) <= 1

(* C9: once stopTracking has run, every subscription is released, and no   *)
(* fix is handled while tracking is off and no start is under way.         *)
C9_StoppedIsSilent ==
  /\ last.ev = "stopTracking" => liveSubs = {}
  /\ last.ev \in fixEvents => (isTracking \/ starts # EmptyBag)

(* C10: a denied permission request ends that startTracking call with the  *)
(* "Permission denied" notification and nothing else: no subscription is   *)
(* created, isTracking and the watcher stay as they were (false and empty  *)
(* unless another call has set them), and no fix or point comes of it.     *)
C10_DeniedStartsNothing ==
  [][ last'.ev = "denied" =>
        /\ last'.alert = "Permission denied"
        /\ BagCardinality(starts') = BagCardinality(starts) - 1
        /\ subs' = subs /\ isTracking' = isTracking /\ watcher' = watcher
        /\ (subs = <<>> => ~isTracking' /\ watcher' = 0)
        /\ location' = location /\ explored' = explored
        /\ ops' = ops /\ store' = store ]_vars

\* a denial has just ended a start, and nothing is tracking
C10_Witness ==
  last.ev = "denied" /\ last.alert = "Permission denied" /\ ~isTracking /\ watcher = 0

(* C11: after the startup load and any number of successful inserts, a     *)
(* completed reload leaves in memory the same points, order aside, as      *)
(* memory held when "Sync Web" was pressed.                                *)
C11_ReloadRoundTrip ==
  [][ last'.ev = "reloadOk" =>
        \A o \in BagToSet(ops) :
          o.op = "reload" => BagOfSeq(explored') = BagOfSeq(o.pts) ]_vars

\* a reload has completed with a point in memory that a fix inserted
C11_Witness ==
  /\ last.ev = "reloadOk"
  /\ \E k \in 1..Len(explored) : explored[k] \in FixCoords

(* C12: reset is idempotent: every confirmed "Clear", on an empty set and  *)
(* right after another reset too, issues the delete-all, and when the      *)
(* delete-all resolves memory and the table are empty and the user is      *)
(* told of no error.                                                       *)
C12_ResetIdempotent ==
  [][ /\ last'.ev = "reset" =>
           CopiesIn(Op("delete", <<>>, 0), ops') = CopiesIn(Op("delete", <<>>, 0), ops) + 1
      /\ last'.ev = "resetOk" =>
           explored' = <<>> /\ store'.rows = <<>> /\ last'.alert = "" ]_vars

\* "Clear" again after a reset has completed: both stores are already empty, the
\* web view still shows the message of the first reset, and a DELETE is in flight
C12_Witness ==
  /\ last.ev = "reset"
  /\ webMsg = ResetMsg
  /\ explored = <<>> /\ store.rows = <<>>
  /\ CopiesIn(Op("delete", <<>>, 0), ops) = 1

\* the steps in which a permission request, a write or a read has failed
errorEvents == {"denied", "insertFailed", "resetFailed", "initFailed", "reloadFailed"}

(* C13: every denied permission request, failed write and failed read is   *)
(* told to the user: the step that handles it raises a notification.       *)
C13_ErrorsSurfaced == last.ev \in errorEvents => last.alert # ""

\* the startup load has failed: it is over and memory misses the persisted row
degraded ==
  /\ \A o \in BagToSet(ops) : o.op # "initDB"
  /\ Len(explored) < Len(store.rows)

(* C14: a failed startup load leaves memory empty and tracking startable:  *)
(* Start can be pressed right after it, and when watchPositionAsync then   *)
(* resolves there is one more live subscription, held in the watcher, and  *)
(* isTracking is true.                                                     *)
C14_DegradedStillStarts ==
  /\ [](last.ev = "initFailed" => explored = <<>> /\ ENABLED StartWhenSettled)
  /\ [][ (degraded /\ last'.ev = "watching") =>
            /\ isTracking'
            /\ watcher' \in liveSubs'
            /\ liveSubs' = liveSubs \cup {watcher'}
            /\ watcher' \notin liveSubs ]_vars

\* tracking runs on a subscription although the startup load had failed
C14_Witness ==
  /\ degraded /\ explored = <<>>
  /\ isTracking /\ watcher \in liveSubs
  /\ last.ev = "watching"

(* C15: every handled fix becomes the last-known coordinate, whether it is *)
(* NEW (the coordinate is the one that goes to the INSERT) or REVISITED    *)
(* (it is within 30 m of a point its subscription compares with), and the  *)
(* later outcome of the INSERT leaves it alone; a REVISITED fix changes no *)
(* other state of the tracker.                                             *)
C15_LocationAlwaysUpdated ==
  [][ /\ last'.ev = "fixNew" =>
           /\ location' # <<>>
           /\ ops' = Put(ops, Op("insert", location', 1))
      /\ last'.ev = "fixRevisited" =>
           /\ location' # <<>>
           /\ \E k \in liveSubs : someWithin(subs[k].snap, location'[1])
           /\ UNCHANGED <<explored, store, ops, isTracking, watcher, subs, starts>>
      /\ last'.ev \in {"insertOk", "insertFailed"} => location' = location ]_vars

\* the first fix the screen handles is a revisit, and it is the last-known coordinate
C15_Witness ==
  /\ last.ev = "fixRevisited"
  /\ location = <<Coord(2, 0)>>
  /\ explored = <<Coord(4, 0)>>
  /\ ops = EmptyBag

(* C16: once the bridge to the web map is ready, the last message posted   *)
(* to it carries the last-known coordinate and the whole explored set of   *)
(* the current render, an empty set with no coordinate known included.     *)
C16_SnapshotFollowsState ==
  isMapReady => webMsg.pts = explored /\ webMsg.loc = location

(* C17: stopping does not abort a write in progress and silences the       *)
(* position source: an INSERT that resolves while tracking is off still    *)
(* adds its point to the table and then to memory, and no fix is handled   *)
(* while tracking is off.                                                  *)
C17_StopKeepsWrite ==
  [][ /\ (variant = "sqlite" /\ last'.ev = "insertOk" /\ ~isTracking) =>
           \E o \in BagToSet(ops) :
             /\ o.op = "insert" /\ ops' = Take(ops, o)
             /\ store'.rows = Append(store.rows, o.pts[1])
             /\ explored' = Append(explored, o.pts[1])
      /\ last'.ev \in fixEvents => isTracking ]_vars

\* the requests to the table: the INSERT of a fix, the DELETE of reset, the
\* SELECT of "Sync Web" and the statements of the startup load
persistenceOps == {"insert", "delete", "reload", "initDB"}

(* C18: the persistence operations are mutually exclusive: no two of the   *)
(* insert of a fix, the delete-all of reset and the select-all of a reload *)
(* or of the startup load are in flight together.                          *)
C18_PersistenceExclusive ==
  \A o1, o2 \in BagToSet(ops) :
    (o1.op \in persistenceOps /\ o2.op \in persistenceOps) =>
      o1 = o2 /\ CopiesIn(o1, ops) = 1

\* rows `old` with one or more rows added after them, none changed or removed
grownFrom(old, new) ==
  /\ Len(old) <= Len(new)
  /\ \A k \in 1..Len(old) : new[k] = old[k]

(* C19: persisted points are never updated and are removed only by a       *)
(* confirmed reset, all at once: every other step leaves the persisted     *)
(* rows in place and at most adds rows after them.                         *)
C19_RowsOnlyGrow ==
  [][ IF last'.ev = "resetOk"
      THEN store'.rows = <<>>
      ELSE grownFrom(store.rows, store'.rows) ]_vars

(* C20: a reload whose select-all has failed leaves memory as it was when  *)
(* "Sync Web" was pressed: it holds the points it held then, and so is not *)
(* left empty while the table holds them.                                  *)
C20_FailedReloadKeepsMemory ==
  [][ last'.ev = "reloadFailed" =>
        \E o \in BagToSet(ops) :
          /\ o.op = "reload" /\ ops' = Take(ops, o)
          /\ BagOfSeq(explored') = BagOfSeq(o.pts) ]_vars

(* C21: the tracking flag and the subscription handle agree in every       *)
(* state: isTracking is true exactly when the watcher holds a subscription *)
(* that has not been removed.                                              *)
C21_FlagMatchesWatcher ==
  isTracking <=> (watcher # 0 /\ watcher \in liveSubs)

\* tracking again on a second subscription after the first was stopped and removed
C21_Witness ==
  /\ isTracking /\ watcher = 2 /\ watcher \in liveSubs
  /\ ~subs[1].live

====
